---- MODULE Spec2Model ----
(***************************************************************************)
(* RearmableCallback of tensorpipe/common/callback.h: a mutex-guarded      *)
(* single callback slot (callback_) plus a FIFO backlog (queue_), driven   *)
(* by arm, trigger and triggerIfArmed from several threads.  User          *)
(* callbacks are foreign code: a callback may call back into the same      *)
(* instance before it returns.                                             *)
(*                                                                         *)
(* Callbacks are identified by the number of the arm call that supplied    *)
(* them (1, 2, ...), argument tuples by the number of the trigger or       *)
(* triggerIfArmed call that supplied them.                                 *)
(***************************************************************************)
EXTENDS Integers, Naturals, Sequences, FiniteSets, TLC

\* ---------------------------------------------------------------- bounds
NumThreads == 2
MaxArgs == 2
MaxArms == MaxArgs
MaxArmsDisciplined == 2 * MaxArgs + 1
MaxDepth == 4
MaxNested == 1
NumOwners == 2
MaxCalls == 3

Threads == 1..NumThreads
None == 0

VARIABLES
  mutex_,     \* None, or the thread that owns the std::mutex
  callback_,  \* optional<F>: None, or the callback in the slot
  queue_,     \* std::deque<TStoredArgs>
  stack,      \* per thread: its call stack, innermost frame last
  log,        \* callback invocations, in the order in which they started
  nArm,       \* number of arm calls made so far
  calls,      \* calls[x] = the operation that supplied argument tuple x
  enqueued,   \* history: argument tuples in the order they entered queue_
  drained,    \* history: argument tuples in the order arm took them out
  stored,     \* history: callbacks arm has put into the slot
  lost,       \* history: callbacks arm has overwritten in the slot
  acquired,   \* history: trigger's arguments in the order trigger locked
  paired,     \* history: trigger's arguments in the order they were given
              \* a callback (by arm from the backlog, or by trigger itself)
  argOf,      \* history: the argument tuple of each thread's one trigger
              \* call in the fan-in scenario (None before the call)
  \* runIfAlive: one subject, one callable made from it by runIfAlive
  useCount,   \* owning references to the subject (shared_ptr use count)
  owners,     \* owning references held outside the callable
  subject,    \* "alive", or "destroyed" once the last owner is gone
  gcall,      \* per thread: its invocation of the callable
  fnLog,      \* invocations of fn, in the order in which they started
  nCalls      \* number of invocations of the callable made so far

vars == <<mutex_, callback_, queue_, stack, log, nArm, calls,
          enqueued, drained, stored, lost, acquired, paired, argOf,
          useCount, owners, subject, gcall, fnLog, nCalls>>
hist == <<enqueued, drained, stored, lost, acquired, paired, argOf>>
rearmable == <<mutex_, callback_, queue_, stack, log, nArm, calls, hist>>
guard == <<useCount, owners, subject, gcall, fnLog, nCalls>>

\* ---------------------------------------------------------------- frames
Frame(op, f, args) ==
  [op |-> op, pc |-> "lock", f |-> f, args |-> args, holds |-> FALSE, left |-> 0]

CbFrame(f, args) ==
  [op |-> "cb", pc |-> "run", f |-> f, args |-> args, holds |-> FALSE,
   left |-> MaxNested]

Depth(t) == Len(stack[t])
Top(t) == stack[t][Depth(t)]
SetTop(t, fr) == [stack EXCEPT ![t] = [@ EXCEPT ![Depth(t)] = fr]]
Push(t, fr) == [stack EXCEPT ![t] = Append(@, fr)]
Pop(t) == [stack EXCEPT ![t] = SubSeq(@, 1, Depth(t) - 1)]

AtTop(t, op, pc) == Depth(t) > 0 /\ Top(t).op = op /\ Top(t).pc = pc

\* A thread can start an operation from its own code, or from inside a
\* callback that is running on it.
CanCall(t) ==
  \/ Depth(t) = 0
  \/ Depth(t) > 0 /\ Depth(t) < MaxDepth /\ Top(t).op = "cb" /\ Top(t).left > 0

PushCall(t, fr) ==
  IF Depth(t) = 0
    THEN Push(t, fr)
    ELSE [stack EXCEPT ![t] =
            Append([@ EXCEPT ![Depth(t)] = [Top(t) EXCEPT !.left = @ - 1]], fr)]

\* A thread that is not invoking the callable.
GIdle == [pc |-> "idle", shared |-> FALSE, args |-> <<>>, id |-> None]

\* The argument lists the callable is invoked with.
ArgTuples == {<<1, 2>>, <<2, 1>>}

Init ==
  /\ mutex_ = None
  /\ callback_ = None
  /\ queue_ = <<>>
  /\ stack = [t \in Threads |-> <<>>]
  /\ log = <<>>
  /\ nArm = 0
  /\ calls = <<>>
  /\ enqueued = <<>>
  /\ drained = <<>>
  /\ stored = {}
  /\ lost = {}
  /\ acquired = <<>>
  /\ paired = <<>>
  /\ argOf = [t \in Threads |-> None]
  /\ useCount = NumOwners
  /\ owners = NumOwners
  /\ subject = "alive"
  /\ gcall = [t \in Threads |-> GIdle]
  /\ fnLog = <<>>
  /\ nCalls = 0

\* ------------------------------------------- the three critical sections
\* Each gives the state the locked section leaves behind: the slot, the
\* backlog, the callback and arguments of the invocation that follows (if
\* any), and whether the mutex was released before that point.

\* Variants of the locked sections with one slip each; every property below
\* is checked to tell the code's section from one of them.
ArmEffect_StoreAlways(cb, q, f) ==
  IF q # <<>>
    THEN [callback_ |-> f, queue_ |-> Tail(q), f |-> f, args |-> Head(q),
          invoke |-> TRUE, unlock |-> TRUE]
    ELSE [callback_ |-> f, queue_ |-> q, f |-> f, args |-> None,
          invoke |-> FALSE, unlock |-> FALSE]

ArmEffect_NoPop(cb, q, f) ==
  IF q # <<>>
    THEN [callback_ |-> cb, queue_ |-> q, f |-> f, args |-> Head(q),
          invoke |-> TRUE, unlock |-> TRUE]
    ELSE [callback_ |-> f, queue_ |-> q, f |-> f, args |-> None,
          invoke |-> FALSE, unlock |-> FALSE]

ArmEffect_StoreAndInvoke(cb, q, f) ==
  IF q # <<>>
    THEN [callback_ |-> cb, queue_ |-> Tail(q), f |-> f, args |-> Head(q),
          invoke |-> TRUE, unlock |-> TRUE]
    ELSE [callback_ |-> f, queue_ |-> q, f |-> f, args |-> None,
          invoke |-> TRUE, unlock |-> TRUE]

ArmEffect_TakesBack(cb, q, f) ==
  IF q # <<>>
    THEN [callback_ |-> cb, queue_ |-> SubSeq(q, 1, Len(q) - 1), f |-> f,
          args |-> q[Len(q)], invoke |-> TRUE, unlock |-> TRUE]
    ELSE [callback_ |-> f, queue_ |-> q, f |-> f, args |-> None,
          invoke |-> FALSE, unlock |-> FALSE]

ArmEffect_KeepsLock(cb, q, f) ==
  IF q # <<>>
    THEN [callback_ |-> cb, queue_ |-> Tail(q), f |-> f, args |-> Head(q),
          invoke |-> TRUE, unlock |-> FALSE]
    ELSE [callback_ |-> f, queue_ |-> q, f |-> f, args |-> None,
          invoke |-> FALSE, unlock |-> FALSE]

ArmEffect_InvokesOld(cb, q, f) ==
  IF q # <<>>
    THEN [callback_ |-> cb, queue_ |-> Tail(q), f |-> f, args |-> Head(q),
          invoke |-> TRUE, unlock |-> TRUE]
    ELSE IF cb # None
      THEN [callback_ |-> f, queue_ |-> q, f |-> cb, args |-> None,
            invoke |-> TRUE, unlock |-> TRUE]
      ELSE [callback_ |-> f, queue_ |-> q, f |-> f, args |-> None,
            invoke |-> FALSE, unlock |-> FALSE]

ArmEffect_DrainsAll(cb, q, f) ==
  IF q # <<>>
    THEN [callback_ |-> cb, queue_ |-> <<>>, f |-> f, args |-> Head(q),
          invoke |-> TRUE, unlock |-> TRUE]
    ELSE [callback_ |-> f, queue_ |-> q, f |-> f, args |-> None,
          invoke |-> FALSE, unlock |-> FALSE]

ArmEffect(cb, q, f) ==
  IF q # <<>>
    THEN [callback_ |-> cb, queue_ |-> Tail(q), f |-> f, args |-> Head(q),
          invoke |-> TRUE, unlock |-> TRUE]
    ELSE [callback_ |-> f, queue_ |-> q, f |-> f, args |-> None,
          invoke |-> FALSE, unlock |-> FALSE]

TriggerEffect_Drop(cb, q, x) ==
  IF cb # None
    THEN [callback_ |-> None, queue_ |-> q, f |-> cb, args |-> x,
          invoke |-> TRUE, unlock |-> TRUE]
    ELSE [callback_ |-> cb, queue_ |-> q, f |-> None, args |-> x,
          invoke |-> FALSE, unlock |-> FALSE]

TriggerEffect_PushFront(cb, q, x) ==
  IF cb # None
    THEN [callback_ |-> None, queue_ |-> q, f |-> cb, args |-> x,
          invoke |-> TRUE, unlock |-> TRUE]
    ELSE [callback_ |-> cb, queue_ |-> <<x>> \o q, f |-> None, args |-> x,
          invoke |-> FALSE, unlock |-> FALSE]

TriggerEffect_NoReset(cb, q, x) ==
  IF cb # None
    THEN [callback_ |-> cb, queue_ |-> q, f |-> cb, args |-> x,
          invoke |-> TRUE, unlock |-> TRUE]
    ELSE [callback_ |-> cb, queue_ |-> Append(q, x), f |-> None, args |-> x,
          invoke |-> FALSE, unlock |-> FALSE]

TriggerEffect_Overwrite(cb, q, x) ==
  IF cb # None
    THEN [callback_ |-> None, queue_ |-> q, f |-> cb, args |-> x,
          invoke |-> TRUE, unlock |-> TRUE]
    ELSE [callback_ |-> cb, queue_ |-> <<x>>, f |-> None, args |-> x,
          invoke |-> FALSE, unlock |-> FALSE]

TriggerEffect(cb, q, x) ==
  IF cb # None
    THEN [callback_ |-> None, queue_ |-> q, f |-> cb, args |-> x,
          invoke |-> TRUE, unlock |-> TRUE]
    ELSE [callback_ |-> cb, queue_ |-> Append(q, x), f |-> None, args |-> x,
          invoke |-> FALSE, unlock |-> FALSE]

TriggerIfArmedEffect_Enqueue(cb, q, x) ==
  IF cb # None
    THEN [callback_ |-> None, queue_ |-> q, f |-> cb, args |-> x,
          invoke |-> TRUE, unlock |-> FALSE]
    ELSE [callback_ |-> cb, queue_ |-> Append(q, x), f |-> None, args |-> x,
          invoke |-> FALSE, unlock |-> FALSE]

TriggerIfArmedEffect(cb, q, x) ==
  IF cb # None
    THEN [callback_ |-> None, queue_ |-> q, f |-> cb, args |-> x,
          invoke |-> TRUE, unlock |-> FALSE]
    ELSE [callback_ |-> cb, queue_ |-> q, f |-> None, args |-> x,
          invoke |-> FALSE, unlock |-> FALSE]

\* ---------------------------------------------------------------- calls
StartArm(t) ==
  /\ CanCall(t)
  /\ nArm' = nArm + 1
  /\ stack' = PushCall(t, Frame("arm", nArm + 1, None))
  /\ UNCHANGED <<mutex_, callback_, queue_, log, calls, hist, guard>>

CallArm(t) ==
  /\ nArm < MaxArms
  /\ StartArm(t)

CallTrigger(t) ==
  /\ CanCall(t)
  /\ Len(calls) < MaxArgs
  /\ calls' = Append(calls, "trigger")
  /\ stack' = PushCall(t, Frame("trigger", None, Len(calls) + 1))
  /\ UNCHANGED <<mutex_, callback_, queue_, log, nArm, hist, guard>>

CallTriggerIfArmed(t) ==
  /\ CanCall(t)
  /\ Len(calls) < MaxArgs
  /\ calls' = Append(calls, "triggerIfArmed")
  /\ stack' = PushCall(t, Frame("triggerIfArmed", None, Len(calls) + 1))
  /\ UNCHANGED <<mutex_, callback_, queue_, log, nArm, hist, guard>>

\* ------------------------------------------------------------ the mutex
\* std::unique_lock / std::lock_guard constructor: blocks while another
\* thread owns the mutex.
Lock(t) ==
  /\ Depth(t) > 0 /\ Top(t).op # "cb" /\ Top(t).pc = "lock"
  /\ mutex_ = None
  /\ mutex_' = t
  /\ stack' = SetTop(t, [Top(t) EXCEPT !.pc = "crit", !.holds = TRUE])
  /\ UNCHANGED <<callback_, queue_, log, nArm, calls, hist, guard>>

\* Locking a std::mutex the calling thread already owns is undefined: the
\* thread blocks on itself for ever ...
RelockDeadlocks(t) ==
  /\ Depth(t) > 0 /\ Top(t).op # "cb" /\ Top(t).pc = "lock"
  /\ mutex_ = t
  /\ stack' = SetTop(t, [Top(t) EXCEPT !.pc = "blocked"])
  /\ UNCHANGED <<mutex_, callback_, queue_, log, nArm, calls, hist, guard>>

\* ... or lock() reports resource_deadlock_would_occur, and the exception
\* unwinds the thread's frames, the lock_guard below releasing the mutex.
RelockThrows(t) ==
  /\ Depth(t) > 0 /\ Top(t).op # "cb" /\ Top(t).pc = "lock"
  /\ mutex_ = t
  /\ stack' = [stack EXCEPT ![t] = <<>>]
  /\ mutex_' = None
  /\ UNCHANGED <<callback_, queue_, log, nArm, calls, hist, guard>>

\* ------------------------------------------------- the locked sections
ArmCrit(t) ==
  /\ AtTop(t, "arm", "crit")
  /\ LET e == ArmEffect(callback_, queue_, Top(t).f) IN
       /\ callback_' = e.callback_
       /\ queue_' = e.queue_
       /\ mutex_' = IF e.unlock THEN None ELSE mutex_
       /\ stack' = SetTop(t, [Top(t) EXCEPT
                                !.pc = IF e.invoke THEN "invoke" ELSE "exit",
                                !.f = e.f, !.args = e.args,
                                !.holds = ~e.unlock])
       /\ drained' = IF e.args # None THEN Append(drained, e.args) ELSE drained
       /\ stored' = IF e.callback_ # callback_ THEN stored \cup {e.callback_}
                                                ELSE stored
       /\ lost' = IF callback_ # None /\ e.callback_ # callback_
                    THEN lost \cup {callback_} ELSE lost
       /\ paired' = IF e.args # None THEN Append(paired, e.args) ELSE paired
  /\ UNCHANGED <<log, nArm, calls, enqueued, acquired, argOf, guard>>

TriggerCrit(t) ==
  /\ AtTop(t, "trigger", "crit")
  /\ LET e == TriggerEffect(callback_, queue_, Top(t).args) IN
       /\ callback_' = e.callback_
       /\ queue_' = e.queue_
       /\ mutex_' = IF e.unlock THEN None ELSE mutex_
       /\ stack' = SetTop(t, [Top(t) EXCEPT
                                !.pc = IF e.invoke THEN "invoke" ELSE "exit",
                                !.f = e.f, !.holds = ~e.unlock])
       /\ enqueued' = IF e.queue_ # queue_ THEN Append(enqueued, e.args)
                                           ELSE enqueued
       /\ acquired' = Append(acquired, Top(t).args)
       /\ paired' = IF e.invoke THEN Append(paired, e.args) ELSE paired
  /\ UNCHANGED <<log, nArm, calls, drained, stored, lost, argOf, guard>>

TriggerIfArmedCrit(t) ==
  /\ AtTop(t, "triggerIfArmed", "crit")
  /\ LET e == TriggerIfArmedEffect(callback_, queue_, Top(t).args) IN
       /\ callback_' = e.callback_
       /\ queue_' = e.queue_
       /\ mutex_' = IF e.unlock THEN None ELSE mutex_
       /\ stack' = SetTop(t, [Top(t) EXCEPT
                                !.pc = IF e.invoke THEN "invoke" ELSE "exit",
                                !.f = e.f, !.holds = ~e.unlock])
       /\ enqueued' = IF e.queue_ # queue_ THEN Append(enqueued, e.args)
                                           ELSE enqueued
  /\ UNCHANGED <<log, nArm, calls, drained, stored, lost, acquired, paired,
               argOf, guard>>

\* ------------------------------------------------------- the callbacks
\* cb_apply(std::move(f), args): the callback starts running on the
\* calling thread.
Invoke(t) ==
  /\ Depth(t) > 0 /\ Top(t).op # "cb" /\ Top(t).pc = "invoke"
  /\ log' = Append(log, [f |-> Top(t).f, args |-> Top(t).args,
                         via |-> Top(t).op, locked |-> (mutex_ = t)])
  /\ stack' = [stack EXCEPT ![t] =
                 Append([@ EXCEPT ![Depth(t)] = [Top(t) EXCEPT !.pc = "exit"]],
                        CbFrame(Top(t).f, Top(t).args))]
  /\ UNCHANGED <<mutex_, callback_, queue_, nArm, calls, hist, guard>>

CbReturn(t) ==
  /\ AtTop(t, "cb", "run")
  /\ stack' = Pop(t)
  /\ UNCHANGED <<mutex_, callback_, queue_, log, nArm, calls, hist, guard>>

\* End of the operation: the lock's destructor releases the mutex if the
\* operation still owns it.
Return(t) ==
  /\ Depth(t) > 0 /\ Top(t).op # "cb" /\ Top(t).pc = "exit"
  /\ mutex_' = IF Top(t).holds THEN None ELSE mutex_
  /\ stack' = Pop(t)
  /\ UNCHANGED <<callback_, queue_, log, nArm, calls, hist, guard>>

\* ------------------------------------------------------ specifications
Next ==
  \E t \in Threads :
    \/ CallArm(t)
    \/ CallTrigger(t)
    \/ CallTriggerIfArmed(t)
    \/ Lock(t)
    \/ RelockDeadlocks(t)
    \/ RelockThrows(t)
    \/ ArmCrit(t)
    \/ TriggerCrit(t)
    \/ TriggerIfArmedCrit(t)
    \/ Invoke(t)
    \/ CbReturn(t)
    \/ Return(t)

Spec == Init /\ [][Next]_vars

\* Sequences of arm and trigger calls only (no triggerIfArmed).
NextArmTrigger ==
  \E t \in Threads :
    \/ CallArm(t)
    \/ CallTrigger(t)
    \/ Lock(t)
    \/ ArmCrit(t)
    \/ TriggerCrit(t)
    \/ Invoke(t)
    \/ CbReturn(t)
    \/ Return(t)

SpecArmTrigger == Init /\ [][NextArmTrigger]_vars

\* A consumer that keeps arming and never arms while the slot is occupied:
\* arm is called only when the slot is empty and no other arm call is on
\* its way to the slot.
ArmInFlight ==
  \E t \in Threads : \E k \in 1..Depth(t) :
    stack[t][k].op = "arm" /\ stack[t][k].pc \in {"lock", "crit", "blocked"}

\* Every argument tuple uses up at most one arm call, and every invocation
\* made by triggerIfArmed can make at most one more arm call fail, so this
\* consumer never runs out of arm calls while arguments are waiting.
CallArmDisciplined(t) ==
  /\ callback_ = None
  /\ ~ArmInFlight
  /\ nArm < MaxArmsDisciplined
  /\ StartArm(t)

Progress(t) ==
  \/ Lock(t)
  \/ RelockDeadlocks(t)
  \/ RelockThrows(t)
  \/ ArmCrit(t)
  \/ TriggerCrit(t)
  \/ TriggerIfArmedCrit(t)
  \/ Invoke(t)
  \/ CbReturn(t)
  \/ Return(t)

NextDisciplined ==
  \E t \in Threads :
    \/ CallArmDisciplined(t)
    \/ CallTrigger(t)
    \/ CallTriggerIfArmed(t)
    \/ Progress(t)

\* Every thread keeps running (a started operation or callback goes on while
\* it can), and the consumer arms again whenever it may.
FairSpec ==
  /\ Init
  /\ [][NextDisciplined]_vars
  /\ \A t \in Threads : WF_vars(Progress(t))
  /\ SF_vars(\E t \in Threads : CallArmDisciplined(t))

\* ------------------------------------------------------------ runIfAlive
\* weak.lock(): atomically, an owning reference if the subject still has
\* one, otherwise an empty pointer.
WeakLock_Unchecked(c) == [shared |-> TRUE, useCount |-> c + 1]

WeakLock(c) ==
  IF c > 0 THEN [shared |-> TRUE, useCount |-> c + 1]
           ELSE [shared |-> FALSE, useCount |-> c]

\* std::forward<Args>(args)...: fn receives the arguments as given.
Forward_Swapped(args) == [k \in 1..Len(args) |-> args[Len(args) + 1 - k]]

Forward(args) == args

\* End of the callable's body: the local shared is destroyed.
ReleaseTemp_Leak(c, shared) == c

ReleaseTemp(c, shared) == IF shared THEN c - 1 ELSE c

\* The subject's destructor runs when the last owning reference goes.
SubjectAfter(c) == IF c = 0 THEN "destroyed" ELSE subject

GuardCall(t) ==
  /\ gcall[t].pc = "idle"
  /\ nCalls < MaxCalls
  /\ nCalls' = nCalls + 1
  /\ \E a \in ArgTuples :
       gcall' = [gcall EXCEPT ![t] =
                   [pc |-> "lock", shared |-> FALSE, args |-> a, id |-> nCalls + 1]]
  /\ UNCHANGED <<rearmable, useCount, owners, subject, fnLog>>

GuardLock(t) ==
  /\ gcall[t].pc = "lock"
  /\ LET w == WeakLock(useCount) IN
       /\ useCount' = w.useCount
       /\ gcall' = [gcall EXCEPT ![t].pc = "test", ![t].shared = w.shared]
  /\ UNCHANGED <<rearmable, owners, subject, fnLog, nCalls>>

GuardTest(t) ==
  /\ gcall[t].pc = "test"
  /\ IF gcall[t].shared
       THEN /\ fnLog' = Append(fnLog, [call |-> gcall[t].id,
                                       args |-> Forward(gcall[t].args),
                                       subject |-> subject])
            /\ gcall' = [gcall EXCEPT ![t].pc = "fn"]
       ELSE /\ fnLog' = fnLog
            /\ gcall' = [gcall EXCEPT ![t].pc = "end"]
  /\ UNCHANGED <<rearmable, useCount, owners, subject, nCalls>>

GuardFnReturn(t) ==
  /\ gcall[t].pc = "fn"
  /\ gcall' = [gcall EXCEPT ![t].pc = "end"]
  /\ UNCHANGED <<rearmable, useCount, owners, subject, fnLog, nCalls>>

GuardEnd(t) ==
  /\ gcall[t].pc = "end"
  /\ useCount' = ReleaseTemp(useCount, gcall[t].shared)
  /\ subject' = SubjectAfter(useCount')
  /\ gcall' = [gcall EXCEPT ![t] = GIdle]
  /\ UNCHANGED <<rearmable, owners, fnLog, nCalls>>

\* An owner outside the callable drops its reference.
OwnerRelease ==
  /\ owners > 0
  /\ owners' = owners - 1
  /\ useCount' = useCount - 1
  /\ subject' = SubjectAfter(useCount')
  /\ UNCHANGED <<rearmable, gcall, fnLog, nCalls>>

NextGuard ==
  \/ OwnerRelease
  \/ \E t \in Threads :
       \/ GuardCall(t)
       \/ GuardLock(t)
       \/ GuardTest(t)
       \/ GuardFnReturn(t)
       \/ GuardEnd(t)

SpecGuard == Init /\ [][NextGuard]_vars

\* ------------------------------------------------- the fan-in scenario
\* On a fresh instance every thread calls trigger once; when all these calls
\* have returned, as many arm calls follow (their callbacks do not call back).
FanInTrigger(t) ==
  /\ Depth(t) = 0
  /\ argOf[t] = None
  /\ nArm = 0
  /\ calls' = Append(calls, "trigger")
  /\ stack' = Push(t, Frame("trigger", None, Len(calls) + 1))
  /\ argOf' = [argOf EXCEPT ![t] = Len(calls) + 1]
  /\ UNCHANGED <<mutex_, callback_, queue_, log, nArm, enqueued, drained,
                 stored, lost, acquired, paired, guard>>

FanInArm(t) ==
  /\ Depth(t) = 0
  /\ \A u \in Threads : argOf[u] # None
  /\ \A u \in Threads : \A k \in 1..Depth(u) : stack[u][k].op # "trigger"
  /\ nArm < NumThreads
  /\ StartArm(t)

NextFanIn ==
  \E t \in Threads :
    \/ FanInTrigger(t)
    \/ FanInArm(t)
    \/ Lock(t)
    \/ ArmCrit(t)
    \/ TriggerCrit(t)
    \/ Invoke(t)
    \/ CbReturn(t)
    \/ Return(t)

SpecFanIn == Init /\ [][NextFanIn]_vars

\* ------------------------------------------------------------ vocabulary
AllIdle == \A t \in Threads : Depth(t) = 0
Invocations == 1..Len(log)
TriggerCalls == {x \in 1..Len(calls) : calls[x] = "trigger"}
Frames(t) == {stack[t][k] : k \in 1..Depth(t)}
\* Thread t has just executed the locked section of operation op.
RanCrit(t, op) == AtTop(t, op, "crit") /\ stack'[t] # stack[t]

\* ---------------------------------------------------------------- claims

\* C1: the slot is never occupied while the backlog is non-empty; the only
\* reachable states are Unarmed-Empty, Unarmed-Backlogged and Armed-Empty.
C1_SlotExcludesBacklog == ~(callback_ # None /\ queue_ # <<>>)

\* A callback sits in the slot after an earlier arm drained a backlog entry.
C1_Witness == callback_ # None /\ drained # <<>> /\ queue_ = <<>>

\* C2: whenever arm, trigger or triggerIfArmed invokes a user callback, the
\* calling thread does not hold the mutex when the callback starts.
C2_CallbackStartsUnlocked == \A i \in Invocations : ~log[i].locked

\* C3: under a consumer that keeps arming and never arms an occupied slot,
\* every trigger call's arguments are eventually delivered to a callback.
C3_EveryTriggerDelivered ==
  \A x \in 1..MaxArgs :
    (x \in TriggerCalls) ~> (\E i \in Invocations : log[i].args = x)

\* C4 as stated: once a sequence of arm and trigger calls has completed, the
\* number of callback invocations equals the number of trigger calls.
C4_InvocationsEqualTriggers ==
  AllIdle => Len(log) = Cardinality(TriggerCalls)

\* C4 amended: once a sequence of arm and trigger calls has completed, the
\* number of callback invocations equals the number of trigger calls minus
\* the number of argument tuples still waiting in the backlog.
C4_InvocationsPlusBacklogEqualTriggers ==
  AllIdle => Len(log) + Len(queue_) = Cardinality(TriggerCalls)

\* A completed sequence with both a delivered and a still queued trigger.
C4_Witness == AllIdle /\ Len(log) >= 1 /\ Len(queue_) >= 1

\* C5: each invocation made by arm or trigger carries the arguments of
\* exactly one earlier trigger call, no arguments reach two invocations, and
\* no backlog entry is taken out by two arm calls.
C5_NoDuplicationNoInvention ==
  /\ \A i \in Invocations :
       log[i].via \in {"arm", "trigger"} =>
         /\ log[i].args \in TriggerCalls
         /\ \A j \in Invocations : j # i => log[j].args # log[i].args
  /\ \A i, j \in 1..Len(drained) : i # j => drained[i] # drained[j]

\* Both arm and trigger have invoked a callback.
C5_Witness ==
  /\ \E i \in Invocations : log[i].via = "arm"
  /\ \E i \in Invocations : log[i].via = "trigger"

\* C6: arm takes the backlog entry that was enqueued earliest among those
\* still queued: the k-th draining arm receives the k-th enqueued arguments,
\* and hands exactly those to its own callback.
C6_FifoPairing ==
  /\ Len(drained) <= Len(enqueued)
  /\ drained = SubSeq(enqueued, 1, Len(drained))
  /\ \A t \in Threads : \A fr \in Frames(t) :
       (fr.op = "arm" /\ fr.pc \in {"invoke", "exit"} /\ fr.args # None) =>
         \E k \in 1..Len(drained) : drained[k] = fr.args
  /\ \A i \in Invocations :
       log[i].via = "arm" => \E k \in 1..Len(drained) : drained[k] = log[i].args

\* Two arm calls have each drained an entry and invoked their callbacks.
C6_Witness ==
  /\ Len(drained) >= 2
  /\ Cardinality({i \in Invocations : log[i].via = "arm"}) >= 2

\* C7: arm(f) on an empty backlog stores f and invokes nothing; f is not
\* invoked until trigger or triggerIfArmed has taken it out of the slot.
C7_StoredCallbackWaits ==
  /\ \A i \in Invocations : log[i].via = "arm" => log[i].f \notin stored
  /\ \A t \in Threads : \A fr \in Frames(t) :
       (fr.op = "arm" /\ fr.pc = "invoke") => fr.f \notin stored
  /\ callback_ # None => \A i \in Invocations : log[i].f # callback_

\* A stored callback has been fired by a later trigger, another one waits.
C7_Witness ==
  /\ callback_ # None
  /\ \E i \in Invocations : log[i].f \in stored /\ log[i].via = "trigger"

\* C8: trigger(x) on an empty slot invokes nothing and appends x at the back
\* of the backlog; arm(f) finding x at the front takes x and has invoked
\* f(x) before it returns.
C8_EnqueueThenSynchronousArm ==
  /\ [][\A t \in Threads :
          /\ (RanCrit(t, "trigger") /\ callback_ = None) =>
               /\ queue_' = Append(queue_, Top(t).args)
               /\ callback_' = None
               /\ log' = log
               /\ stack'[t][Depth(t)].pc = "exit"
          /\ (RanCrit(t, "arm") /\ queue_ # <<>>) =>
               /\ stack'[t][Depth(t)].pc = "invoke"
               /\ stack'[t][Depth(t)].f = Top(t).f
               /\ stack'[t][Depth(t)].args = Head(queue_)
               /\ queue_' = Tail(queue_)
          /\ (AtTop(t, "arm", "invoke") /\ stack'[t] # stack[t]) =>
               /\ Len(log') = Len(log) + 1
               /\ log'[Len(log')].f = Top(t).f
               /\ log'[Len(log')].args = Top(t).args
       ]_vars
  /\ [](\A t \in Threads : \A fr \in Frames(t) :
          (fr.op = "arm" /\ fr.pc = "exit" /\ fr.args # None) =>
            \E i \in Invocations :
              log[i].f = fr.f /\ log[i].args = fr.args /\ log[i].via = "arm")

\* An arm call is about to return after it took queued arguments from a
\* backlog of two and invoked its callback.
C8_Witness ==
  /\ Len(enqueued) >= 2
  /\ \E t \in Threads :
       /\ AtTop(t, "arm", "exit")
       /\ Top(t).args # None
       /\ Top(t).args = enqueued[1]
       /\ queue_ # <<>>

\* C9: triggerIfArmed(x) on an empty slot invokes nothing, leaves the slot
\* empty and the backlog unchanged; x is never delivered to a later arm.
C9_TriggerIfArmedUnarmedIsNoOp ==
  /\ [][\A t \in Threads :
          (RanCrit(t, "triggerIfArmed") /\ callback_ = None) =>
            /\ queue_' = queue_
            /\ callback_' = None
            /\ log' = log
            /\ stack'[t][Depth(t)].pc = "exit"
       ]_vars
  /\ [](\A k \in 1..Len(queue_) : queue_[k] \in TriggerCalls)
  /\ [](\A i \in Invocations :
          (log[i].args \notin TriggerCalls) => log[i].via = "triggerIfArmed")

\* A triggerIfArmed call found the slot empty, and a later arm has drained
\* the backlog that was there.
C9_Witness ==
  /\ drained # <<>>
  /\ \E t \in Threads :
       AtTop(t, "triggerIfArmed", "exit") /\ Top(t).f = None
                                           /\ Top(t).args < drained[1]

\* C10: from a state with the slot occupied, triggerIfArmed(x) leaves what
\* trigger(x) leaves: the same slot and backlog, the same callback invoked
\* with x, and the same conditions for whatever the callback then does.
C10_TriggerIfArmedLikeTrigger ==
  callback_ # None =>
    \A x \in 1..MaxArgs :
      TriggerIfArmedEffect(callback_, queue_, x) = TriggerEffect(callback_, queue_, x)

\* C11: every call to arm, trigger or triggerIfArmed returns, also when it
\* is made by a callback running on the same instance: no call is ever left
\* waiting for a mutex that its own thread holds.
C11_EveryCallReturns ==
  \A t \in Threads : \A fr \in Frames(t) : fr.pc # "blocked"

\* Position of argument tuple x in the order of entry into the backlog.
EnqueuedAt(x) == CHOOSE k \in 1..Len(enqueued) : enqueued[k] = x

\* C12: a callback that arm invokes runs with the mutex released, so a call
\* it makes to arm or trigger on the same instance does not block on its own
\* thread, and that call finds the consumed entry already removed: an arm
\* nested in the callback takes the entry that followed.
C12_ArmCallbackMayReenter ==
  /\ \A i \in Invocations : log[i].via = "arm" => ~log[i].locked
  /\ \A t \in Threads : \A k \in 1..Depth(t) :
       (stack[t][k].op = "arm" /\ stack[t][k].args # None
          /\ stack[t][k].pc \in {"invoke", "exit"}) =>
         /\ \A j \in 1..Len(queue_) : queue_[j] # stack[t][k].args
         /\ (k + 2 <= Depth(t)) =>
              /\ stack[t][k + 2].pc # "blocked"
              /\ stack[t][k + 2].pc = "lock" => mutex_ # t
              /\ (stack[t][k + 2].op = "arm" /\ stack[t][k + 2].args # None) =>
                   EnqueuedAt(stack[t][k].args) < EnqueuedAt(stack[t][k + 2].args)

\* arm(f) took an entry, and the arm(g) that f called took the next one.
C12_Witness ==
  \E t \in Threads :
    /\ Depth(t) >= 3
    /\ stack[t][1].op = "arm" /\ stack[t][1].args # None
    /\ stack[t][2].op = "cb"
    /\ stack[t][3].op = "arm" /\ stack[t][3].args # None
    /\ stack[t][3].pc = "exit"

\* C14: each callback handed to arm is invoked at most once; trigger and
\* triggerIfArmed empty the slot before they fire its occupant, the slot
\* then stays empty until an arm call fills it, and a trigger that finds it
\* empty is enqueued without any invocation.
C14_OneShot ==
  /\ [](\A i, j \in Invocations : i # j => log[i].f # log[j].f)
  /\ [](\A t \in Threads : \A fr \in Frames(t) :
          (fr.op \in {"trigger", "triggerIfArmed"} /\ fr.f # None) =>
            /\ callback_ # fr.f
            /\ fr.pc = "exit" => Cardinality({i \in Invocations : log[i].f = fr.f}) = 1)
  /\ [][\A t \in Threads :
          /\ ((RanCrit(t, "trigger") \/ RanCrit(t, "triggerIfArmed"))
                /\ callback_ # None) =>
               /\ callback_' = None
               /\ stack'[t][Depth(t)].f = callback_
               /\ stack'[t][Depth(t)].pc = "invoke"
          /\ (RanCrit(t, "trigger") /\ callback_ = None) =>
               /\ log' = log
               /\ stack'[t][Depth(t)].pc = "exit"
               /\ Len(queue_') = Len(queue_) + 1
       ]_vars
  /\ [][(callback_ = None /\ callback_' # None) =>
          \E t \in Threads : RanCrit(t, "arm")]_vars

\* A trigger fired the armed callback, and a second trigger, with no arm in
\* between, was put into the backlog.
C14_Witness ==
  /\ nArm = 1
  /\ callback_ = None
  /\ Len(queue_) = 1
  /\ \E i \in Invocations : log[i].via = "trigger" /\ log[i].f = 1
  /\ AllIdle

\* C15: arm(g) on a slot that holds f (the backlog is then empty) puts g in
\* the slot and invokes nothing; f is never invoked afterwards, and the next
\* trigger fires g.
C15_DoubleArmDiscardsFirst ==
  /\ [][\A t \in Threads :
          (RanCrit(t, "arm") /\ callback_ # None) =>
            /\ queue_ = <<>>
            /\ callback_' = Top(t).f
            /\ log' = log
            /\ stack'[t][Depth(t)].pc = "exit"
            /\ callback_ \in lost'
       ]_vars
  /\ [](\A i \in Invocations : log[i].f \notin lost)
  /\ [](callback_ \notin lost)
  /\ [](\A t \in Threads : \A fr \in Frames(t) :
          fr.pc = "invoke" => fr.f \notin lost)

\* f was overwritten by g, and a trigger then fired g.
C15_Witness ==
  /\ lost = {1}
  /\ \E i \in Invocations : log[i].f = 2 /\ log[i].via = "trigger"

\* C18: arm(f) on a backlog of n >= 1 entries removes the front entry and
\* nothing else: the other n-1 entries stay in their order, f is not stored
\* in the slot, and f is invoked exactly once, with the entry removed.
C18_ArmDrainsExactlyOne ==
  /\ [][\A t \in Threads :
          (RanCrit(t, "arm") /\ queue_ # <<>>) =>
            /\ Len(queue_') = Len(queue_) - 1
            /\ \A k \in 1..Len(queue_') : queue_'[k] = queue_[k + 1]
            /\ callback_' = callback_
            /\ callback_' = None
            /\ Len(drained') = Len(drained) + 1
            /\ log' = log
       ]_vars
  /\ [](\A t \in Threads : \A fr \in Frames(t) :
          (fr.op = "arm" /\ fr.args # None) =>
            /\ fr.f \notin stored
            /\ callback_ # fr.f
            /\ Cardinality({i \in Invocations : log[i].f = fr.f})
                 = (IF fr.pc = "exit" THEN 1 ELSE 0)
            /\ fr.pc = "exit" =>
                 \E i \in Invocations : log[i].f = fr.f /\ log[i].args = fr.args)

\* An arm call took one entry from a backlog of two and invoked its callback
\* once; the other entry is still queued.
C18_Witness ==
  /\ Len(queue_) = 1
  /\ Len(drained) = 1
  /\ Len(enqueued) = 2
  /\ \E t \in Threads : AtTop(t, "arm", "exit") /\ Top(t).args = drained[1]
  /\ Len(log) = 1

\* Position of trigger's argument tuple x in the order the trigger calls
\* acquired the lock.
AcquiredAt(x) == CHOOSE k \in 1..Len(acquired) : acquired[k] = x

\* C19 as stated: callback invocations start in the order in which the
\* corresponding trigger calls acquired the lock.
C19_InvocationsStartInLockOrder ==
  \A i, j \in Invocations :
    (i < j /\ log[i].args \in TriggerCalls /\ log[j].args \in TriggerCalls) =>
      AcquiredAt(log[i].args) < AcquiredAt(log[j].args)

\* C19 amended: arguments are given their callback, under the lock, in the
\* order in which their trigger calls acquired the lock (the callbacks are
\* started after the lock is released and may start in another order).
C19_PairedInLockOrder ==
  /\ Len(paired) <= Len(acquired)
  /\ \A k \in 1..Len(paired) : paired[k] = acquired[k]

\* Two concurrent arm calls took their entries in lock order and started
\* their callbacks in the opposite order.
C19_Witness ==
  /\ Len(paired) = 2
  /\ Len(log) = 2
  /\ log[1].args = paired[2]
  /\ log[2].args = paired[1]
  /\ log[1].via = "arm" /\ log[2].via = "arm"

\* C13: when every thread has called trigger once on a fresh instance, the
\* backlog holds exactly one entry per call; as many arm calls afterwards
\* make exactly that many invocations, one with each thread's arguments,
\* and leave the instance Unarmed-Empty.
C13_FanInKeepsEveryTrigger ==
  /\ (nArm = 0 /\ AllIdle /\ \A t \in Threads : argOf[t] # None) =>
       /\ Len(queue_) = NumThreads
       /\ \A t \in Threads :
            Cardinality({k \in 1..Len(queue_) : queue_[k] = argOf[t]}) = 1
  /\ (nArm = NumThreads /\ AllIdle) =>
       /\ Len(log) = NumThreads
       /\ \A t \in Threads :
            Cardinality({i \in Invocations : log[i].args = argOf[t]}) = 1
       /\ \A i, j \in Invocations : i # j => log[i].f # log[j].f
       /\ queue_ = <<>>
       /\ callback_ = None

\* All triggers and all the arm calls after them have returned.
C13_Witness ==
  /\ nArm = NumThreads
  /\ AllIdle
  /\ Len(log) = NumThreads
  /\ \A t \in Threads : argOf[t] # None

\* Thread t is inside the callable and holds the temporary owning reference.
Holding(t) == gcall[t].shared
FnCallsOf(id) == {i \in 1..Len(fnLog) : fnLog[i].call = id}

\* C16: the callable never runs fn on a destroyed subject: either the
\* upgrade fails and fn is not invoked at all, or it succeeds and the
\* subject is alive from the start of fn to its return.
C16_NeverRunsOnDestroyedSubject ==
  /\ \A i \in 1..Len(fnLog) : fnLog[i].subject = "alive"
  /\ \A t \in Threads :
       /\ gcall[t].pc = "fn" => subject = "alive"
       /\ Holding(t) => subject = "alive"
       /\ (gcall[t].pc \in {"test", "end"} /\ ~Holding(t)) =>
            FnCallsOf(gcall[t].id) = {}

\* The last owner went before the upgrade, which failed; and another
\* invocation had run fn while the subject was alive.
C16_Witness ==
  /\ subject = "destroyed"
  /\ fnLog # <<>>
  /\ \E t \in Threads : gcall[t].pc = "end" /\ ~Holding(t)

\* C17: invoked while the subject is alive, the callable invokes fn exactly
\* once, on that subject, with the arguments it was given, unchanged and in
\* order.
C17_RunsOnceWithForwardedArgs ==
  /\ [][\A t \in Threads :
          (gcall[t].pc = "lock" /\ gcall'[t].pc = "test" /\ subject = "alive") =>
            gcall'[t].shared
       ]_vars
  /\ [](\A t \in Threads :
          (gcall[t].pc \in {"fn", "end"} /\ Holding(t)) =>
            /\ Cardinality(FnCallsOf(gcall[t].id)) = 1
            /\ \A i \in FnCallsOf(gcall[t].id) :
                 /\ fnLog[i].args = gcall[t].args
                 /\ fnLog[i].subject = "alive")
  /\ [](\A i, j \in 1..Len(fnLog) : i # j => fnLog[i].call # fnLog[j].call)

\* fn has run once for an invocation with the arguments <<1, 2>>.
C17_Witness ==
  \E t \in Threads :
    /\ gcall[t].pc = "end"
    /\ Holding(t)
    /\ gcall[t].args = <<1, 2>>
    /\ Cardinality(FnCallsOf(gcall[t].id)) = 1

\* C20: the callable holds no owning reference of its own: the subject's
\* owners are the outside owners and the invocations in progress, the
\* subject is destroyed once there is none of either, and an invocation
\* gives its temporary reference back when it ends.
C20_CallableHoldsOnlyWeakReference ==
  /\ [](useCount = owners + Cardinality({t \in Threads : Holding(t)}))
  /\ []((owners = 0 /\ \A t \in Threads : ~Holding(t)) => subject = "destroyed")
  /\ [](subject = "destroyed" <=> useCount = 0)
  /\ [][\A t \in Threads :
          (gcall[t].pc = "end" /\ gcall'[t].pc = "idle" /\ Holding(t)) =>
            /\ useCount' = useCount - 1
            /\ ~gcall'[t].shared
       ]_vars

\* fn has run once, every outside owner has let go and no invocation is in
\* progress: the subject is destroyed.
C20_Witness ==
  /\ subject = "destroyed"
  /\ owners = 0
  /\ Len(fnLog) = 1
  /\ nCalls = 1
  /\ \A t \in Threads : gcall[t].pc = "idle"

====
